---------------------------- MODULE Spec2Model ----------------------------
(***************************************************************************)
(* Model of the two colour-map notebooks                                   *)
(*   color-advice/kindlmann/kindlmann.ipynb  (hue-sweep ramp)              *)
(*   color-advice/viridis/viridis.ipynb      (ramp interpolated in Lab)    *)
(*                                                                         *)
(* Numbers.  Scalars, hues and Lab coordinates are exact rationals <<n,d>> *)
(* (d > 0, lowest terms).  Scale factors of the chroma search are integers *)
(* in units of 1/ScaleUnit, RGB channels are integers in units of 1/1000.  *)
(*                                                                         *)
(* python-colormath (convert_color) is not part of the repository.  Its    *)
(* answers are an environment: a `gamut` record says which RGB colour the  *)
(* library returns for the Lab colours that scale_hue hands to it.         *)
(***************************************************************************)
EXTENDS Integers, Sequences, FiniteSets, TLC

VARIABLES
    \* ---- kindlmann.ipynb: build_kindlmann_colors / scale_hue
    hue_array,      \* argument of build_kindlmann_colors: table['hue']
    scalars,        \* table['scalar']
    table,          \* rows built so far: [hue, scalar, color]
    row,            \* 0-based index of the row that table.apply is working on
    pc,             \* "idle" | "apply" | "search" | "done"
    gamut,          \* environment: behaviour of the converter for this row
    l_target, a_original, b_original,
    high_scale, low_scale, i,
    low_rgb,        \* what the converter returned when low_scale was probed
    \* ---- viridis.ipynb: loading, color_lookup_sRGBColor, tables
    RGBPoints,      \* raw_color_data['RGBPoints']: flat list s, r, g, b, s, ...
    data,           \* rows [scalar, rgb_values, lab_values]
    vpc,            \* "off" | "start" | "loaded" | "looked" | "points" | "compared"
    x,              \* argument of the last call of color_lookup_sRGBColor
    looked,         \* what that call did and returned
    control_points, \* table of `table_length` rows
    control_points_compare, \* table of table_length*2-1 rows
    num_bits,       \* loop variable of the export loop
    exported,       \* the csv tables written so far: [kind, table_length, rows]
    \* ---- viridis.ipynb: the error estimate of cell 12
    table_length,
    lib,            \* environment: color_lookup_upscaled at the scalars k/(2N-2)
    index,          \* loop variable of the max_error loop
    max_error,
    \* ---- kindlmann.ipynb: the colour tests called on their own
    rgb_color,      \* what the converter returned for the colour under test
    valid,          \* result of valid_color
    safe,           \* result of safe_color
    cpc,
    \* ---- viridis.ipynb: the rows of a table computed in any interleaving
    calls,          \* per row: the locals of its color_lookup_sRGBColor call
    gathered,       \* the rows collected in scalar order
    \* ---- what the run executes
    mode            \* "build" | "call" | "search" | "lookup" | "export" | "estimate" | "color"
                    \* | "parallel" | "kexport" | "preset"

kvars == <<hue_array, scalars, table, row, pc, gamut, l_target, a_original, b_original,
           high_scale, low_scale, i, low_rgb>>

vvars == <<RGBPoints, data, vpc, x, looked, num_bits, exported>>
tvars == <<control_points, control_points_compare>>
evars == <<table_length, lib, index, max_error>>

cvars == <<rgb_color, valid, safe, cpc>>

pvars == <<calls, gathered>>

vars == <<kvars, vvars, tvars, evars, cvars, pvars, mode>>

-----------------------------------------------------------------------------
(* Bounds of the model *)
MaxHues == 4
MaxRows == 3
ScalarDen == 2
QueryDen == 4
MaxTable == 3

(* Program constants *)
start_hue == 300
end_hue == 0
Iterations == 12
FirstBits == 3
HueStep == -30
HueStopDen == 10000
StopBits == 11
ScaleUnit == 2 ^ Iterations

-----------------------------------------------------------------------------
(* Exact rationals *)
Abs(n) == IF n < 0 THEN -n ELSE n

RECURSIVE GCD(_, _)
GCD(m, n) == IF n = 0 THEN m ELSE GCD(n, m % n)

Rat(n, d) ==
    LET g == GCD(Abs(n), Abs(d))
        s == IF d < 0 THEN -1 ELSE 1
    IN  <<(s * n) \div g, (s * d) \div g>>

RLt(p, q) == p[1] * q[2] < q[1] * p[2]
RLe(p, q) == p[1] * q[2] <= q[1] * p[2]
RMul(p, q) == Rat(p[1] * q[1], p[2] * q[2])
RAdd(p, q) == Rat(p[1] * q[2] + q[1] * p[2], p[2] * q[2])
RSub(p, q) == Rat(p[1] * q[2] - q[1] * p[2], p[2] * q[2])
Zero == <<0, 1>>
One == <<1, 1>>

(* numpy.linspace(start, stop, num): num evenly spaced values, both ends   *)
(* included; a single value is the start.  1-based sequence.               *)
linspace_open(start, stop, num) ==
    [k \in 1..num |-> Rat(start * num + (k - 1) * (stop - start), num)]
linspace(start, stop, num) ==
    [k \in 1..num |->
        IF num = 1 THEN Rat(start, 1)
        ELSE Rat(start * (num - 1) + (k - 1) * (stop - start), num - 1)]

-----------------------------------------------------------------------------
(* Colours.  A literal sRGBColor(r, g, b), or the sRGB colour the converter *)
(* returned for a Lab colour.                                               *)
Black == [src |-> "literal", rgb |-> <<0, 0, 0>>, lab |-> <<>>]
White == [src |-> "literal", rgb |-> <<1000, 1000, 1000>>, lab |-> <<>>]
FromLab(lab, rgb) == [src |-> "Lab", rgb |-> rgb, lab |-> lab]

Max3(v) ==
    IF v[1] >= v[2] THEN (IF v[1] >= v[3] THEN v[1] ELSE v[3])
    ELSE (IF v[2] >= v[3] THEN v[2] ELSE v[3])
Min3(v) ==
    IF v[1] <= v[2] THEN (IF v[1] <= v[3] THEN v[1] ELSE v[3])
    ELSE (IF v[2] <= v[3] THEN v[2] ELSE v[3])

(* safe_color on the RGB vector the converter returned.                     *)
(* clamp_dist = 0.05*(max - min); with channels in 1/1000, c >= clamp_dist  *)
(* is 100*c >= 5*(max - min) and c <= 1 - clamp_dist is                     *)
(* 100*c <= 100*1000 - 5*(max - min).                                       *)
safe_color_nodist(rgb) ==
    \A c \in 1..3 : 100 * rgb[c] >= 0 /\ 100 * rgb[c] <= 100 * 1000
safe_color(rgb) ==
    LET clamp_dist100 == 5 * (Max3(rgb) - Min3(rgb))
    IN  \A c \in 1..3 :
            /\ 100 * rgb[c] >= clamp_dist100
            /\ 100 * rgb[c] <= 100 * 1000 - clamp_dist100

-----------------------------------------------------------------------------
(* The converter as environment of scale_hue.  For the Lab colours          *)
(* (l_target, s*a_original, s*b_original) of one row it returns             *)
(*   gray     at s = 0,                                                     *)
(*   inside / outside at s > 0: in a monotone gamut, inside iff s <= t2,    *)
(*            with s and t2 in units of 1/(2*ScaleUnit), so that the        *)
(*            boundary may fall between two scales the search can probe;    *)
(*            otherwise by the bit of `mask` for the probe (any sequence    *)
(*            of answers).                                                  *)
Bit(m, k) == (m \div (2 ^ k)) % 2 = 1

convert_color_sRGB(g, scale2, probe) ==
    IF scale2 = 0 THEN g.gray
    ELSE IF (IF g.mono THEN scale2 <= g.t2 ELSE Bit(g.mask, probe))
         THEN g.inside ELSE g.outside

GrayIn == <<500, 500, 500>>
GrayOut == <<1002, 1002, 1002>>

MonoGamut(t2, ins, outs) ==
    [mono |-> TRUE, t2 |-> t2, mask |-> 0, inside |-> ins, outside |-> outs,
     gray |-> IF t2 >= 0 THEN GrayIn ELSE GrayOut]
MaskGamut(m, ins, outs, gray) ==
    [mono |-> FALSE, t2 |-> 0, mask |-> m, inside |-> ins, outside |-> outs,
     gray |-> gray]

(* every boundary position and every sequence of answers, one colour pair  *)
AllGamuts ==
    {MonoGamut(t2, <<300, 600, 200>>, <<960, 40, 500>>) :
        t2 \in -1..(2 * ScaleUnit)}
    \cup {MaskGamut(m, <<940, 60, 500>>, <<1020, 300, 100>>, GrayIn) :
        m \in 0..(ScaleUnit - 1)}

(* a few boundaries and answer sequences, with other colour pairs: nothing *)
(* safe, only gray safe, a boundary between two probed scales, everything  *)
(* safe, and two alternating answer sequences                              *)
SampleGamuts ==
    { MonoGamut(-1, <<300, 600, 200>>, <<960, 40, 500>>),
      MonoGamut(1, <<940, 60, 500>>, <<1020, 300, 100>>),
      MonoGamut(ScaleUnit + 1, <<300, 600, 200>>, <<500, -10, 200>>),
      MonoGamut(2 * ScaleUnit, <<940, 60, 500>>, <<960, 40, 500>>),
      MaskGamut(1365, <<300, 600, 200>>, <<1020, 300, 100>>, GrayIn),
      MaskGamut(2730, <<940, 60, 500>>, <<500, -10, 200>>, GrayOut) }

(* Lab a/b of the fully saturated colour of a hue (HSV -> sRGB -> Lab by   *)
(* the converter): rounded values for a red-like and a blue-like hue.      *)
ChromaSamples == {<<80, 67>>, <<79, -108>>}

NoGamut == MonoGamut(0, <<0, 0, 0>>, <<0, 0, 0>>)

-----------------------------------------------------------------------------
(* kindlmann.ipynb *)

Gamuts(m) == IF m = "search" THEN AllGamuts ELSE SampleGamuts

KIdle ==
    /\ gamut = NoGamut
    /\ l_target = Zero /\ a_original = 0 /\ b_original = 0
    /\ high_scale = 0 /\ low_scale = 0 /\ i = 0
    /\ low_rgb = <<0, 0, 0>>

(* a notebook that is not run: its variables keep these values *)
NoLook == [color |-> Black, index |-> -1, interp |-> Zero, inspected |-> 0]

VOff ==
    /\ RGBPoints = <<>> /\ data = <<>> /\ vpc = "off"
    /\ x = Zero /\ looked = NoLook
    /\ num_bits = 0 /\ exported = <<>>

TOff == control_points = <<>> /\ control_points_compare = <<>>

COff == rgb_color = <<0, 0, 0>> /\ valid = FALSE /\ safe = FALSE /\ cpc = "off"

POff == calls = <<>> /\ gathered = <<>>

EOff == table_length = 0 /\ lib = <<>> /\ index = 0 /\ max_error = Zero

KOff ==
    /\ hue_array = <<>> /\ scalars = <<>> /\ table = <<>> /\ row = 0 /\ pc = "off"
    /\ KIdle

(* build_kindlmann_colors(hue_array): table['hue'] = hue_array,            *)
(* table['scalar'] = linspace(0, 1, size); the rows are then filled by     *)
(* table.apply(scale_hue), one row after the other.                        *)
build_scalars_open(hues) == linspace_open(0, 1, Len(hues))
build_scalars(hues) == linspace(0, 1, Len(hues))

(* arguments of direct calls of scale_hue *)
HueSamples == {0, 150, 300}
ScalarSamples == { Rat(k, QueryDen) : k \in -1..(QueryDen + 1) }

InitKindlmann ==
    /\ VOff /\ TOff /\ EOff /\ COff /\ POff
    /\ \/ /\ mode = "build"
          /\ \E n \in 1..MaxHues : hue_array = linspace(start_hue, end_hue, n)
          /\ scalars = build_scalars(hue_array)
       \/ /\ mode = "call"
          /\ \E h \in HueSamples : hue_array = <<Rat(h, 1)>>
          /\ \E sc \in ScalarSamples : scalars = <<sc>>
    /\ table = <<>>
    /\ row = 0
    /\ pc = "apply"
    /\ KIdle

(* One call of scale_hue in every converter environment: the middle row of *)
(* a three-row table.                                                      *)
InitScaleHue ==
    /\ VOff /\ TOff /\ EOff /\ COff /\ POff
    /\ mode = "search"
    /\ hue_array = linspace(start_hue, end_hue, 3)
    /\ scalars = build_scalars(hue_array)
    /\ table = <<>>
    /\ row = 0
    /\ pc = "apply"
    /\ KIdle

RowHue == hue_array[row + 1]
RowScalar == scalars[row + 1]

AppendRow(color) ==
    /\ table' = Append(table, [hue |-> RowHue, scalar |-> RowScalar, color |-> color])
    /\ row' = row + 1
    /\ pc' = "apply"

(* scale_hue: if scalar <= 0: return sRGBColor(0, 0, 0) *)
IsLow_strict(scalar) == RLt(scalar, Zero)
IsLow(scalar) == RLe(scalar, Zero)
(* scale_hue: if scalar >= 1: return sRGBColor(1, 1, 1) *)
IsHigh_strict(scalar) == RLt(One, scalar)
IsHigh(scalar) == RLe(One, scalar)

ScaleHueBlack ==
    /\ pc = "apply" /\ row < Len(hue_array)
    /\ IsLow(RowScalar)
    /\ AppendRow(Black)
    /\ UNCHANGED <<hue_array, scalars, gamut, l_target, a_original, b_original,
                   high_scale, low_scale, i, low_rgb>>
    /\ UNCHANGED <<vvars, tvars, evars, cvars, pvars, mode>>

ScaleHueWhite ==
    /\ pc = "apply" /\ row < Len(hue_array)
    /\ ~IsLow(RowScalar) /\ IsHigh(RowScalar)
    /\ AppendRow(White)
    /\ UNCHANGED <<hue_array, scalars, gamut, l_target, a_original, b_original,
                   high_scale, low_scale, i, low_rgb>>
    /\ UNCHANGED <<vvars, tvars, evars, cvars, pvars, mode>>

(* l_target = 100.0*scalar *)
LTarget(scalar) == RMul(<<100, 1>>, scalar)

(* scale_hue past the special cases: the converter gives a/b of the hue,   *)
(* high_scale = 1.0, low_scale = 0.0                                       *)
ScaleHueBegin ==
    /\ pc = "apply" /\ row < Len(hue_array)
    /\ ~IsLow(RowScalar) /\ ~IsHigh(RowScalar)
    /\ \E ab \in ChromaSamples : a_original' = ab[1] /\ b_original' = ab[2]
    /\ gamut' \in Gamuts(mode)
    /\ l_target' = LTarget(RowScalar)
    /\ high_scale' = ScaleUnit
    /\ low_scale' = 0
    /\ i' = 0
    /\ low_rgb' = <<0, 0, 0>>
    /\ pc' = "search"
    /\ UNCHANGED <<hue_array, scalars, table, row>>
    /\ UNCHANGED <<vvars, tvars, evars, cvars, pvars, mode>>

(* mid_scale = (high_scale-low_scale)/2 + low_scale *)
mid_scale_nolow(high, low) == (high - low) \div 2
mid_scale_quarter(high, low) == (high - low) \div 4 + low
mid_scale_high(high, low) == high
mid_scale_next(high, low) == low + 1
mid_scale(high, low) == (high - low) \div 2 + low

(* one pass of `for i in xrange(0, 12)` *)
SearchStep_swapped ==
    /\ pc = "search" /\ i < Iterations
    /\ LET mid == mid_scale(high_scale, low_scale)
           rgb == convert_color_sRGB(gamut, 2 * mid, i)
       IN  IF safe_color(rgb)
           THEN /\ high_scale' = mid
                /\ UNCHANGED <<low_scale, low_rgb>>
           ELSE /\ low_scale' = mid
                /\ low_rgb' = rgb
                /\ UNCHANGED high_scale
    /\ i' = i + 1
    /\ UNCHANGED <<hue_array, scalars, table, row, pc, gamut, l_target, a_original,
                   b_original>>
    /\ UNCHANGED <<vvars, tvars, evars, cvars, pvars, mode>>

SearchStep_nocount ==
    /\ pc = "search" /\ i < Iterations
    /\ LET mid == mid_scale(high_scale, low_scale)
           rgb == convert_color_sRGB(gamut, 2 * mid, i)
       IN  IF safe_color(rgb)
           THEN /\ low_scale' = mid
                /\ low_rgb' = rgb
                /\ UNCHANGED high_scale
           ELSE /\ high_scale' = mid
                /\ UNCHANGED <<low_scale, low_rgb>>
    /\ i' = i
    /\ UNCHANGED <<hue_array, scalars, table, row, pc, gamut, l_target, a_original,
                   b_original>>
    /\ UNCHANGED <<vvars, tvars, evars, cvars, pvars, mode>>

SearchStep ==
    /\ pc = "search" /\ i < Iterations
    /\ LET mid == mid_scale(high_scale, low_scale)
           rgb == convert_color_sRGB(gamut, 2 * mid, i)
       IN  IF safe_color(rgb)
           THEN /\ low_scale' = mid
                /\ low_rgb' = rgb
                /\ UNCHANGED high_scale
           ELSE /\ high_scale' = mid
                /\ UNCHANGED <<low_scale, low_rgb>>
    /\ i' = i + 1
    /\ UNCHANGED <<hue_array, scalars, table, row, pc, gamut, l_target, a_original,
                   b_original>>
    /\ UNCHANGED <<vvars, tvars, evars, cvars, pvars, mode>>

(* LabColor(l_target, low_scale*a_original, low_scale*b_original) *)
ScaledLab_all(l, scale, a, b) ==
    <<RMul(l, Rat(scale, ScaleUnit)), Rat(scale * a, ScaleUnit), Rat(scale * b, ScaleUnit)>>
ScaledLab(l, scale, a, b) == <<l, Rat(scale * a, ScaleUnit), Rat(scale * b, ScaleUnit)>>

(* the converter is a function: the colour of a probed low_scale is the    *)
(* colour it returned at the probe                                         *)
FinalRgb_high == convert_color_sRGB(gamut, 2 * high_scale, i)
FinalRgb == IF low_scale = 0 THEN convert_color_sRGB(gamut, 0, 0) ELSE low_rgb

(* return convert_color(LabColor(l_target, low_scale*a, low_scale*b), sRGBColor) *)
ScaleHueReturn ==
    /\ pc = "search" /\ i = Iterations
    /\ AppendRow(FromLab(ScaledLab(l_target, low_scale, a_original, b_original),
                         FinalRgb))
    /\ gamut' = NoGamut
    /\ l_target' = Zero /\ a_original' = 0 /\ b_original' = 0
    /\ high_scale' = 0 /\ low_scale' = 0 /\ i' = 0
    /\ low_rgb' = <<0, 0, 0>>
    /\ UNCHANGED <<hue_array, scalars>>
    /\ UNCHANGED <<vvars, tvars, evars, cvars, pvars, mode>>

(* return table *)
ReturnTable ==
    /\ pc = "apply" /\ row = Len(hue_array)
    /\ pc' = "done"
    /\ UNCHANGED <<hue_array, scalars, table, row, gamut, l_target, a_original,
                   b_original, high_scale, low_scale, i, low_rgb>>
    /\ UNCHANGED <<vvars, tvars, evars, cvars, pvars, mode>>

-----------------------------------------------------------------------------
(* viridis.ipynb *)

(* Input colours with the Lab colour the converter gives for each (rounded): *)
(* the first and the last colour of the viridis table.  Channels in 1/1000. *)
ColorSamples ==
    { [rgb |-> <<267, 5, 329>>,   lab |-> <<15, 38, -32>>],
      [rgb |-> <<993, 906, 144>>, lab |-> <<91, -5, 85>>] }

(* convert_color(rgb, LabColor) on the input colours *)
convert_color_Lab(rgb) ==
    LET s == CHOOSE c \in ColorSamples : c.rgb = rgb
    IN  <<Rat(s.lab[1], 1), Rat(s.lab[2], 1), Rat(s.lab[3], 1)>>

(* A flat RGBPoints list of n points with scalars k/ScalarDen.              *)
FlatLists ==
    UNION { { [k \in 1..(4 * n) |->
                 LET pt == f[(k + 3) \div 4]
                 IN  IF k % 4 = 1 THEN Rat(pt[1], ScalarDen)
                     ELSE pt[2].rgb[((k + 2) % 4) + 1]]
              : f \in [1..n -> (0..ScalarDen) \X ColorSamples] }
            : n \in 0..MaxRows }

(* for i in range(0, len(RGBPoints), 4): scalar.append(RGBPoints[i+0]);     *)
(* rgb_values.append(sRGBColor(RGBPoints[i+1], [i+2], [i+3]));              *)
ReadPoints(flat) ==
    [k \in 1..(Len(flat) \div 4) |->
        [scalar |-> flat[4 * k - 3],
         rgb_values |-> <<flat[4 * k - 2], flat[4 * k - 1], flat[4 * k]>>]]

(* data['lab_values'] = data['rgb_values'].apply(convert_color ... LabColor) *)
LoadPoints(flat) ==
    LET points == ReadPoints(flat)
    IN  [k \in 1..Len(points) |->
            [scalar |-> points[k].scalar,
             rgb_values |-> points[k].rgb_values,
             lab_values |-> convert_color_Lab(points[k].rgb_values)]]

NaNColor == [src |-> "nan", rgb |-> <<>>, lab |-> <<>>]

(* interp = (x-low_scalar)/(high_scalar-low_scalar) *)
Interp_floor(xq, low_scalar, high_scalar) ==
    IF RLt(xq, low_scalar) THEN Zero
    ELSE LET num == RSub(xq, low_scalar)
             den == RSub(high_scalar, low_scalar)
         IN  Rat(num[1] * den[2], num[2] * den[1])
Interp(xq, low_scalar, high_scalar) ==
    LET num == RSub(xq, low_scalar)
        den == RSub(high_scalar, low_scalar)
    IN  Rat(num[1] * den[2], num[2] * den[1])

(* interp*(high - low) + low, per Lab coordinate *)
MidLab_swap(t, low_lab, high_lab) ==
    [c \in 1..3 |-> RAdd(RMul(t, RSub(low_lab[c], high_lab[c])), high_lab[c])]
MidLab_nolow(t, low_lab, high_lab) ==
    [c \in 1..3 |-> RMul(t, RSub(high_lab[c], low_lab[c]))]
MidLab(t, low_lab, high_lab) ==
    [c \in 1..3 |-> RAdd(RMul(t, RSub(high_lab[c], low_lab[c])), low_lab[c])]

(* if (x > high_scalar): continue *)
Skip_ge(xq, high_scalar) == RLe(high_scalar, xq)
Skip(xq, high_scalar) == RLt(high_scalar, xq)

(* the for loop of color_lookup_sRGBColor from `first` on (0-based, as in   *)
(* the source); `index`, `interp` and `inspected` record what the call did  *)
RECURSIVE LookupFrom(_, _, _)
LookupFrom(tbl, xq, first) ==
    IF first >= Len(tbl) - 1
    THEN [color |-> White, index |-> -1, interp |-> Zero, inspected |-> first]
    ELSE LET low_scalar == tbl[first + 1].scalar
             high_scalar == tbl[first + 2].scalar
         IN  IF Skip(xq, high_scalar)
             THEN LookupFrom(tbl, xq, first + 1)
             ELSE IF high_scalar = low_scalar
                  THEN [color |-> NaNColor, index |-> first, interp |-> Zero,
                        inspected |-> first + 1]
                  ELSE LET t == Interp(xq, low_scalar, high_scalar)
                       IN  [color |-> FromLab(MidLab(t, tbl[first + 1].lab_values,
                                                     tbl[first + 2].lab_values), <<>>),
                            index |-> first, interp |-> t, inspected |-> first + 1]

color_lookup_noclamp(tbl, xq) == LookupFrom(tbl, xq, 0)
color_lookup_nonpositive(tbl, xq) ==
    IF RLe(xq, Zero)
    THEN [color |-> Black, index |-> -1, interp |-> Zero, inspected |-> 0]
    ELSE LookupFrom(tbl, xq, 0)
color_lookup_sRGBColor(tbl, xq) ==
    IF RLt(xq, Zero)
    THEN [color |-> Black, index |-> -1, interp |-> Zero, inspected |-> 0]
    ELSE LookupFrom(tbl, xq, 0)

(* pandas.DataFrame({'scalar': numpy.linspace(0.0, 1.0, num=n)}) with the   *)
(* colour column filled by scalar.apply(color_lookup)                       *)
make_table(tbl, n) ==
    LET column == linspace(0, 1, n)
    IN  [k \in 1..n |-> [scalar |-> column[k],
                         color |-> color_lookup_sRGBColor(tbl, column[k]).color]]

Queries == { Rat(k, QueryDen) : k \in -1..(QueryDen + 1) }

(* the inputs of the runs of the export loop: well-formed tables from      *)
(* scalar 0 to scalar 1                                                     *)
StrictlyIncreasing(tbl) ==
    \A k \in 1..(Len(tbl) - 1) : RLt(tbl[k].scalar, tbl[k + 1].scalar)
IsRamp(tbl) ==
    /\ Len(tbl) >= 2
    /\ StrictlyIncreasing(tbl)
    /\ tbl[1].scalar = Zero /\ tbl[Len(tbl)].scalar = One

InitViridis ==
    /\ KOff /\ TOff /\ EOff /\ COff /\ POff
    /\ \/ /\ mode = "lookup"
          /\ RGBPoints \in FlatLists
       \/ /\ mode \in {"export", "parallel"}
          /\ RGBPoints \in { f \in FlatLists : IsRamp(LoadPoints(f)) }
    /\ data = <<>> /\ vpc = "start"
    /\ x = Zero /\ looked = NoLook
    /\ num_bits = 0 /\ exported = <<>>

Load ==
    /\ vpc = "start" /\ mode \in {"lookup", "export", "parallel"}
    /\ data' = LoadPoints(RGBPoints)
    /\ vpc' = "loaded"
    /\ UNCHANGED <<RGBPoints, x, looked, num_bits, exported>>
    /\ UNCHANGED <<kvars, tvars, evars, cvars, pvars, mode>>

Lookup ==
    /\ vpc = "loaded" /\ mode = "lookup"
    /\ \E xq \in Queries :
        /\ x' = xq
        /\ looked' = color_lookup_sRGBColor(data, xq)
    /\ vpc' = "looked"
    /\ UNCHANGED <<RGBPoints, data, num_bits, exported>>
    /\ UNCHANGED <<kvars, tvars, evars, cvars, pvars, mode>>

(* table_length = n; control_points = table of n rows *)
ControlPoints ==
    /\ vpc = "loaded" /\ mode = "lookup"
    /\ \E n \in 1..MaxTable : control_points' = make_table(data, n)
    /\ vpc' = "points"
    /\ UNCHANGED <<RGBPoints, data, x, looked, num_bits, exported>>
    /\ UNCHANGED <<control_points_compare, kvars, evars, cvars, pvars, mode>>

(* control_points_compare: linspace(0.0, 1.0, num=table_length*2-1) *)
CompareLength_even(n) == n * 2
CompareLength(n) == n * 2 - 1

Compare ==
    /\ vpc = "points" /\ mode = "lookup"
    /\ control_points_compare' =
            make_table(data, CompareLength(Len(control_points)))
    /\ vpc' = "compared"
    /\ UNCHANGED <<RGBPoints, data, x, looked, num_bits, exported>>
    /\ UNCHANGED <<control_points, kvars, evars, cvars, pvars, mode>>

(* for num_bits in range(3, 11): table_length = 2 ** num_bits; the table  *)
(* is written as a byte csv (column RGB) and as a float csv (column sRGB)  *)
ExportBegin ==
    /\ vpc = "loaded" /\ mode = "export"
    /\ num_bits' = FirstBits
    /\ vpc' = "export"
    /\ UNCHANGED <<RGBPoints, data, x, looked, exported>>
    /\ UNCHANGED <<kvars, tvars, evars, cvars, pvars, mode>>

ExportLength_twice(bits) == 2 * bits
ExportLength(bits) == 2 ^ bits

ExportPass ==
    /\ vpc = "export" /\ num_bits < StopBits
    /\ LET color_table == make_table(data, ExportLength(num_bits))
       IN  exported' = exported \o
                <<[kind |-> "byte", table_length |-> Len(color_table), rows |-> color_table],
                  [kind |-> "float", table_length |-> Len(color_table), rows |-> color_table]>>
    /\ num_bits' = num_bits + 1
    /\ UNCHANGED <<RGBPoints, data, vpc, x, looked>>
    /\ UNCHANGED <<kvars, tvars, evars, cvars, pvars, mode>>

(***************************************************************************)
(* The rows of a table computed in any order and any interleaving: each    *)
(* row's call of color_lookup_sRGBColor has its own x and index; `data` is *)
(* only read.  The rows are collected in scalar order at the end.          *)
(***************************************************************************)
ParallelBegin ==
    /\ vpc = "loaded" /\ mode = "parallel"
    /\ \E n \in 1..MaxTable :
          calls' = [k \in 1..n |-> [x |-> linspace(0, 1, n)[k], index |-> 0,
                                    returned |-> FALSE, color |-> Black]]
    /\ vpc' = "parallel"
    /\ UNCHANGED <<RGBPoints, data, x, looked, num_bits, exported, gathered>>
    /\ UNCHANGED <<kvars, tvars, evars, cvars, mode>>

(* one step of a call: the test x < 0, then one pass of the for loop *)
LookupPass(tbl, call) ==
    IF RLt(call.x, Zero)
    THEN [call EXCEPT !.returned = TRUE, !.color = Black]
    ELSE IF call.index >= Len(tbl) - 1
    THEN [call EXCEPT !.returned = TRUE, !.color = White]
    ELSE LET low_scalar == tbl[call.index + 1].scalar
             high_scalar == tbl[call.index + 2].scalar
         IN  IF Skip(call.x, high_scalar)
             THEN [call EXCEPT !.index = call.index + 1]
             ELSE [call EXCEPT !.returned = TRUE,
                     !.color = IF high_scalar = low_scalar THEN NaNColor
                               ELSE FromLab(MidLab(Interp(call.x, low_scalar, high_scalar),
                                                   tbl[call.index + 1].lab_values,
                                                   tbl[call.index + 2].lab_values), <<>>)]

ParallelStep ==
    /\ vpc = "parallel"
    /\ \E k \in 1..Len(calls) :
          /\ ~calls[k].returned
          /\ calls' = [calls EXCEPT ![k] = LookupPass(data, calls[k])]
    /\ UNCHANGED <<vvars, gathered>>
    /\ UNCHANGED <<kvars, tvars, evars, cvars, mode>>

(* the final collection step, in scalar order *)
Collected_reversed(c) ==
    [k \in 1..Len(c) |-> [scalar |-> c[Len(c) + 1 - k].x, color |-> c[Len(c) + 1 - k].color]]
Collected(c) ==
    [k \in 1..Len(c) |-> [scalar |-> c[k].x, color |-> c[k].color]]

Collect ==
    /\ vpc = "parallel"
    /\ \A k \in 1..Len(calls) : calls[k].returned
    /\ gathered' = Collected(calls)
    /\ vpc' = "collected"
    /\ UNCHANGED <<RGBPoints, data, x, looked, num_bits, exported, calls>>
    /\ UNCHANGED <<kvars, tvars, evars, cvars, mode>>

NextViridis ==
    \/ ParallelBegin
    \/ ParallelStep
    \/ Collect
    \/ Load
    \/ Lookup
    \/ ControlPoints
    \/ Compare
    \/ ExportBegin
    \/ ExportPass

(***************************************************************************)
(* viridis.ipynb, cells 11 and 12: the error of a plain RGB interpolation  *)
(* of a table of table_length rows against the table of table_length*2-1   *)
(* rows.  color_lookup_upscaled ends in the library's conversion to bytes, *)
(* so its answer at each scalar is an input of the run (`lib`).            *)
(***************************************************************************)
ByteSamples == { <<0, 0, 0>>, <<255, 0, 10>>, <<0, 49, 0>> }

color_lookup_upscaled(f, scalar) == f[scalar]

(* the scalars at which cells 11 and 12 call color_lookup_upscaled *)
LookedUp(n) ==
    { linspace(0, 1, CompareLength(n))[k] : k \in 1..CompareLength(n) }
        \cup { linspace(0, 1, n)[k] : k \in 1..n }

InitEstimate ==
    /\ KOff /\ TOff /\ COff /\ POff
    /\ mode = "estimate"
    /\ RGBPoints = <<>> /\ data = <<>> /\ vpc = "start"
    /\ x = Zero /\ looked = NoLook
    /\ num_bits = 0 /\ exported = <<>>
    /\ table_length \in 1..MaxTable
    /\ lib \in [LookedUp(table_length) -> ByteSamples]
    /\ index = 0 /\ max_error = Zero

rgb_table(f, n) ==
    LET column == linspace(0, 1, n)
    IN  [k \in 1..n |-> [scalar |-> column[k],
                         RGB |-> color_lookup_upscaled(f, column[k])]]

EstimatePoints ==
    /\ mode = "estimate" /\ vpc = "start"
    /\ control_points' = rgb_table(lib, table_length)
    /\ vpc' = "points"
    /\ UNCHANGED <<RGBPoints, data, x, looked, num_bits, exported>>
    /\ UNCHANGED <<control_points_compare, kvars, evars, cvars, pvars, mode>>

EstimateCompare ==
    /\ mode = "estimate" /\ vpc = "points"
    /\ control_points_compare' = rgb_table(lib, CompareLength(table_length))
    /\ max_error' = Zero
    /\ index' = 0
    /\ vpc' = "loop"
    /\ UNCHANGED <<RGBPoints, data, x, looked, num_bits, exported>>
    /\ UNCHANGED <<control_points, kvars, table_length, lib, cvars, pvars, mode>>

Columns == 1..3
ExpectedRow_even(idx) == idx * 2 + 2
ExpectedRow(idx) == idx * 2 + 1
LastIndex_short(n) == n - 2
LastIndex(n) == n - 1

(* abs(expected - (a + b)/2) for one column of one gap (rows 0-based) *)
Diff(cp, cmp, idx, column) ==
    LET expected == cmp[ExpectedRow(idx) + 1].RGB[column]
        interp == Rat(cp[idx + 1].RGB[column] + cp[idx + 2].RGB[column], 2)
        d == RSub(<<expected, 1>>, interp)
    IN  <<Abs(d[1]), d[2]>>

RECURSIVE ColumnLoop(_, _, _, _, _)
ColumnLoop(cp, cmp, idx, column, err) ==
    IF column > 3 THEN err
    ELSE LET diff == Diff(cp, cmp, idx, column)
         IN  ColumnLoop(cp, cmp, idx, column + 1,
                        IF RLt(err, diff) THEN diff ELSE err)

ErrorPass ==
    /\ mode = "estimate" /\ vpc = "loop"
    /\ index < LastIndex(table_length)
    /\ max_error' = ColumnLoop(control_points, control_points_compare, index, 1, max_error)
    /\ index' = index + 1
    /\ UNCHANGED <<RGBPoints, data, vpc, x, looked, num_bits, exported>>
    /\ UNCHANGED <<kvars, tvars, table_length, lib, cvars, pvars, mode>>

ErrorDone ==
    /\ mode = "estimate" /\ vpc = "loop"
    /\ index >= LastIndex(table_length)
    /\ vpc' = "estimated"
    /\ UNCHANGED <<RGBPoints, data, x, looked, num_bits, exported>>
    /\ UNCHANGED <<kvars, tvars, evars, cvars, pvars, mode>>

NextEstimate ==
    \/ EstimatePoints
    \/ EstimateCompare
    \/ ErrorPass
    \/ ErrorDone

(***************************************************************************)
(* kindlmann.ipynb: valid_color and safe_color called on one colour.  The  *)
(* converter's answer for the colour is the input; channels in 1/1000,     *)
(* some of them just outside [0,1].                                        *)
(***************************************************************************)
ChannelSamples == {-3, -1, 0, 1, 40, 500, 960, 999, 1000, 1001, 1003}

(* sRGBColor.get_upscaled_value_tuple: int(math.floor(0.5 + c*255)) *)
get_upscaled_value_tuple(rgb) ==
    [c \in 1..3 |-> (255 * rgb[c] + 500) \div 1000]

(* valid_color on the RGB vector the converter returned *)
valid_color(rgb) ==
    LET up == get_upscaled_value_tuple(rgb)
    IN  /\ up[1] >= 0 /\ up[1] <= 255
        /\ up[2] >= 0 /\ up[2] <= 255
        /\ up[3] >= 0 /\ up[3] <= 255

InitColor ==
    /\ KOff /\ VOff /\ TOff /\ EOff /\ POff
    /\ mode = "color"
    /\ rgb_color \in ChannelSamples \X ChannelSamples \X ChannelSamples
    /\ valid = FALSE /\ safe = FALSE
    /\ cpc = "start"

ValidColor ==
    /\ mode = "color" /\ cpc = "start"
    /\ valid' = valid_color(rgb_color)
    /\ cpc' = "valid"
    /\ UNCHANGED <<rgb_color, safe, kvars, vvars, tvars, evars, pvars, mode>>

SafeColor ==
    /\ mode = "color" /\ cpc = "valid"
    /\ safe' = safe_color(rgb_color)
    /\ cpc' = "safe"
    /\ UNCHANGED <<rgb_color, valid, kvars, vvars, tvars, evars, pvars, mode>>

NextColor ==
    \/ ValidColor
    \/ SafeColor

(***************************************************************************)
(* kindlmann.ipynb, cells 13 to 15: whole tables built by                  *)
(* build_kindlmann_colors, the RGBPoints preset and the export loop.  The  *)
(* converter answers alike for every row of one table here; the rows of a  *)
(* table in different converter environments are the runs above.          *)
(***************************************************************************)

(* numpy.arange(start, stop, step) with stop = -1/HueStopDen and step < 0: *)
(* ceil((stop - start)/step) values start, start + step, ...               *)
arange(start, step) ==
    LET span == start * HueStopDen + 1
        stride == (-step) * HueStopDen
        n == (span + stride - 1) \div stride
    IN  [k \in 1..n |-> Rat(start + (k - 1) * step, 1)]

(* the for loop of scale_hue from pass k on *)
RECURSIVE SearchFrom(_, _, _, _, _)
SearchFrom(g, high, low, rgb, k) ==
    IF k = Iterations THEN [low_scale |-> low, low_rgb |-> rgb]
    ELSE LET mid == mid_scale(high, low)
             probe == convert_color_sRGB(g, 2 * mid, k)
         IN  IF safe_color(probe)
             THEN SearchFrom(g, high, mid, probe, k + 1)
             ELSE SearchFrom(g, mid, low, rgb, k + 1)

scale_hue(g, ab, hue, scalar) ==
    IF IsLow(scalar) THEN Black
    ELSE IF IsHigh(scalar) THEN White
    ELSE LET found == SearchFrom(g, ScaleUnit, 0, <<0, 0, 0>>, 0)
         IN  FromLab(ScaledLab(LTarget(scalar), found.low_scale, ab[1], ab[2]),
                     IF found.low_scale = 0 THEN convert_color_sRGB(g, 0, 0)
                     ELSE found.low_rgb)

build_kindlmann_colors(g, ab, hues) ==
    LET column == build_scalars(hues)
    IN  [k \in 1..Len(hues) |->
            [hue |-> hues[k], scalar |-> column[k],
             color |-> scale_hue(g, ab, hues[k], column[k])]]

InitTables ==
    /\ TOff /\ EOff /\ COff /\ POff /\ VOff
    /\ mode \in {"kexport", "preset"}
    /\ hue_array = <<>> /\ scalars = <<>> /\ table = <<>> /\ row = 0
    /\ pc = "start"
    /\ gamut \in SampleGamuts
    /\ \E ab \in ChromaSamples : a_original = ab[1] /\ b_original = ab[2]
    /\ l_target = Zero
    /\ high_scale = 0 /\ low_scale = 0 /\ i = 0
    /\ low_rgb = <<0, 0, 0>>

(* RGBPoints.append(color_table['scalar'][index]);                         *)
(* RGBPoints.extend(color_table['sRGB'][index])                            *)
FlattenPoints_rgb(tbl) ==
    [k \in 1..(3 * Len(tbl)) |-> tbl[(k + 2) \div 3].color.rgb[((k + 2) % 3) + 1]]
FlattenPoints(tbl) ==
    [k \in 1..(4 * Len(tbl)) |->
        IF k % 4 = 1 THEN tbl[(k + 3) \div 4].scalar
        ELSE tbl[(k + 3) \div 4].color.rgb[((k + 2) % 4) + 1]]

(* cell 13: color_table from the hues 300, 270, ..., 0 and its RGBPoints *)
Preset ==
    /\ mode = "preset" /\ pc = "start"
    /\ hue_array' = arange(start_hue, HueStep)
    /\ scalars' = build_scalars(hue_array')
    /\ table' = build_kindlmann_colors(gamut, <<a_original, b_original>>, hue_array')
    /\ RGBPoints' = FlattenPoints(table')
    /\ pc' = "preset"
    /\ UNCHANGED <<row, gamut, l_target, a_original, b_original, high_scale,
                   low_scale, i, low_rgb>>
    /\ UNCHANGED <<data, vpc, x, looked, num_bits, exported>>
    /\ UNCHANGED <<tvars, evars, cvars, pvars, mode>>

(* the loading loop of viridis.ipynb run on that RGBPoints list *)
ReadBack ==
    /\ mode = "preset" /\ pc = "preset"
    /\ data' = ReadPoints(RGBPoints)
    /\ pc' = "read"
    /\ UNCHANGED <<hue_array, scalars, table, row, gamut, l_target, a_original,
                   b_original, high_scale, low_scale, i, low_rgb>>
    /\ UNCHANGED <<RGBPoints, vpc, x, looked, num_bits, exported>>
    /\ UNCHANGED <<tvars, evars, cvars, pvars, mode>>

(* cell 15: for num_bits in xrange(3, 11) *)
KExportBegin ==
    /\ mode = "kexport" /\ pc = "start"
    /\ num_bits' = FirstBits
    /\ pc' = "export"
    /\ UNCHANGED <<hue_array, scalars, table, row, gamut, l_target, a_original,
                   b_original, high_scale, low_scale, i, low_rgb>>
    /\ UNCHANGED <<RGBPoints, data, vpc, x, looked, exported>>
    /\ UNCHANGED <<tvars, evars, cvars, pvars, mode>>

KExportPass ==
    /\ mode = "kexport" /\ pc = "export" /\ num_bits < StopBits
    /\ hue_array' = linspace(start_hue, end_hue, ExportLength(num_bits))
    /\ scalars' = build_scalars(hue_array')
    /\ table' = build_kindlmann_colors(gamut, <<a_original, b_original>>, hue_array')
    /\ exported' = exported \o
            <<[kind |-> "byte", table_length |-> Len(table'), rows |-> table'],
              [kind |-> "float", table_length |-> Len(table'), rows |-> table']>>
    /\ num_bits' = num_bits + 1
    /\ UNCHANGED <<row, pc, gamut, l_target, a_original, b_original, high_scale,
                   low_scale, i, low_rgb>>
    /\ UNCHANGED <<RGBPoints, data, vpc, x, looked>>
    /\ UNCHANGED <<tvars, evars, cvars, pvars, mode>>

NextTables ==
    \/ Preset
    \/ ReadBack
    \/ KExportBegin
    \/ KExportPass

NextKindlmann ==
    \/ ScaleHueBlack
    \/ ScaleHueWhite
    \/ ScaleHueBegin
    \/ SearchStep
    \/ ScaleHueReturn
    \/ ReturnTable

Init == InitKindlmann \/ InitViridis \/ InitEstimate \/ InitTables
Next == NextKindlmann \/ NextViridis \/ NextEstimate \/ NextTables
Spec == Init /\ [][Next]_vars
SpecScaleHue == InitScaleHue /\ [][NextKindlmann]_vars
SpecColor == InitColor /\ [][NextColor]_vars

-----------------------------------------------------------------------------
(* Properties *)

Last(tbl) == tbl[Len(tbl)]

(* the rows scale_hue has returned so far: black at scalar 0, white at 1 *)
ScaleHueEnds ==
    \A k \in 1..Len(table) :
        /\ table[k].scalar = Zero => table[k].color = Black
        /\ table[k].scalar = One => table[k].color = White

(* C1, as stated: the lookup at scalar 0 gives pure black and at scalar 1  *)
(* pure white, for color_lookup_sRGBColor on every table whose first       *)
(* scalar is 0 and last scalar is 1, and for scale_hue with every hue.     *)
C1_BlackWhiteAtEnds ==
    /\ ScaleHueEnds
    /\ (vpc = "looked" /\ Len(data) >= 1
            /\ data[1].scalar = Zero /\ Last(data).scalar = One)
        => /\ x = Zero => looked.color = Black
           /\ x = One => looked.color = White

(* C1, amended: scale_hue gives pure black at scalar 0 and pure white at   *)
(* scalar 1 for every hue; color_lookup_sRGBColor on a strictly increasing *)
(* table from scalar 0 to scalar 1 gives at scalar 0 the conversion of the *)
(* first sample's Lab colour and at scalar 1 the conversion of the last    *)
(* sample's Lab colour.                                                    *)
C1_EndColours ==
    /\ ScaleHueEnds
    /\ (vpc = "looked" /\ IsRamp(data))
        => /\ x = Zero => looked.color = FromLab(data[1].lab_values, <<>>)
           /\ x = One => looked.color = FromLab(Last(data).lab_values, <<>>)

C1_Witness ==
    /\ vpc = "looked" /\ IsRamp(data) /\ Len(data) = 3
    /\ x = One
    /\ looked.color = FromLab(Last(data).lab_values, <<>>)
    /\ looked.color # White

(* safety of the colour at scale k/ScaleUnit in a monotone gamut *)
SafeScale(g, k) == safe_color(convert_color_sRGB(g, 2 * k, 0))

SearchEnded == pc = "search" /\ i = Iterations

(* C2, as stated: under monotone safety the binary search of scale_hue     *)
(* returns the largest scale in [0,1] whose colour is safe (the boundary   *)
(* of the gamut, or 1 when every scale is safe).                           *)
C2_LargestScale ==
    (SearchEnded /\ gamut.mono /\ gamut.t2 >= 0)
        => 2 * low_scale = (IF gamut.t2 < 2 * ScaleUnit THEN gamut.t2 ELSE 2 * ScaleUnit)

(* C2, amended: under monotone safety the binary search of scale_hue       *)
(* returns k/4096 with 0 <= k <= 4095, the largest of the scales 1/4096,   *)
(* ..., 4095/4096 whose colour is safe, and 0 (never probed) when none of  *)
(* them is safe.                                                           *)
C2_LargestGridScale ==
    (SearchEnded /\ gamut.mono)
        => /\ low_scale \in 0..(ScaleUnit - 1)
           /\ low_scale > 0 => SafeScale(gamut, low_scale)
           /\ \A k \in (low_scale + 1)..(ScaleUnit - 1) : ~SafeScale(gamut, k)

C2_Witness ==
    /\ SearchEnded /\ gamut.mono
    /\ low_scale = 1365
    /\ SafeScale(gamut, 1365) /\ ~SafeScale(gamut, 1366)

(* no scale has a safe colour, the gray of scale 0 included *)
NoSafeScale(g) ==
    /\ g.mono
    /\ \A k \in 0..ScaleUnit : ~SafeScale(g, k)

(* C3: when no scale is safe, scale 0 included, the build aborts: the      *)
(* search of that sample returns no colour (no row is added for it).       *)
C3_ExhaustionAborts ==
    [][(pc = "search" /\ NoSafeScale(gamut)) => Len(table') = Len(table)]_vars

(* C4: a table whose scalars are not strictly increasing is refused at     *)
(* load time, so no lookup is ever performed on one.                       *)
C4_MalformedRejected ==
    vpc \in {"loaded", "looked", "points", "compared", "export"}
        => StrictlyIncreasing(data)

Sorted(tbl) ==
    \A k \in 1..(Len(tbl) - 1) : RLe(tbl[k].scalar, tbl[k + 1].scalar)

C6_OutOfRangeClamped ==
    /\ \A k \in 1..Len(table) :
            /\ RLe(table[k].scalar, Zero) => table[k].color = Black
            /\ RLe(One, table[k].scalar) => table[k].color = White
    /\ (vpc = "looked" /\ Sorted(data))
        => /\ RLt(x, Zero) => looked.color = Black
           /\ (Len(data) >= 1 /\ RLt(Last(data).scalar, x)) => looked.color = White

C6_Witness ==
    /\ mode = "call" /\ Len(table) = 1
    /\ table[1].scalar = Rat(5, 4)
    /\ table[1].hue = Rat(150, 1)
    /\ table[1].color = White

(* Lab L of a returned colour: sRGB black has L = 0 and sRGB white L = 100 *)
LabL(color) ==
    IF color.src = "Lab" THEN color.lab[1]
    ELSE IF color = Black THEN Zero ELSE <<100, 1>>

(* C7: in every table built by build_kindlmann_colors the Lab L of the     *)
(* rows is non-decreasing with the scalar, every row with a scalar         *)
(* strictly between 0 and 1 comes from a Lab colour with L = 100*scalar,   *)
(* and the search keeps that L.                                            *)
C7_MonotonicLuminance ==
    /\ mode \in {"build", "search"} =>
          \A k \in 1..Len(table) :
            /\ (RLt(Zero, table[k].scalar) /\ RLt(table[k].scalar, One))
                => /\ table[k].color.src = "Lab"
                   /\ table[k].color.lab[1][1] * table[k].scalar[2]
                        = 100 * table[k].scalar[1] * table[k].color.lab[1][2]
            /\ \A j \in 1..(k - 1) : RLe(LabL(table[j].color), LabL(table[k].color))
    /\ pc = "search" =>
          l_target[1] * RowScalar[2] = 100 * RowScalar[1] * l_target[2]

C7_Witness ==
    /\ mode = "build" /\ pc = "done" /\ Len(table) = 4
    /\ table[2].color.src = "Lab" /\ table[2].color.lab[1] = Rat(100, 3)
    /\ table[3].color.lab[1] = Rat(200, 3)
    /\ table[3].color.lab[2] # Zero

(* from scalar 0 to scalar 1, strictly increasing *)
ScalarsOK(tbl) ==
    /\ tbl[1].scalar = Zero
    /\ Last(tbl).scalar = One
    /\ StrictlyIncreasing(tbl)

(* C8: every generated table of two or more rows (the table returned by    *)
(* build_kindlmann_colors, the control-point tables and every exported     *)
(* table) has strictly increasing scalars, the first 0 and the last 1.     *)
C8_MonotonicScalars ==
    /\ (mode \in {"build", "search"} /\ pc = "done" /\ Len(table) >= 2)
            => ScalarsOK(table)
    /\ Len(control_points) >= 2 => ScalarsOK(control_points)
    /\ Len(control_points_compare) >= 2 => ScalarsOK(control_points_compare)
    /\ \A k \in 1..Len(exported) :
            /\ Len(exported[k].rows) = 2 ^ (FirstBits + (k - 1) \div 2)
            /\ ScalarsOK(exported[k].rows)

C8_Witness ==
    /\ vpc = "export" /\ num_bits = StopBits
    /\ Len(exported) = 16
    /\ Len(Last(exported).rows) = 1024
    /\ Last(exported).rows[2].scalar = Rat(1, 1023)

(* C9, as stated: the table of resolution 2R, keeping every other row,     *)
(* is the table of resolution R (the export loop writes both for R = 8,    *)
(* 16, ..., 512).                                                          *)
C9_DoubleResolution ==
    \A a, b \in 1..Len(exported) :
        (exported[a].kind = exported[b].kind
            /\ exported[b].table_length = 2 * exported[a].table_length)
        => \E off \in {0, 1} :
             \A j \in 1..exported[a].table_length :
                exported[b].rows[2 * j - off] = exported[a].rows[j]

(* C9, amended: the table of resolution 2R-1, keeping every other row      *)
(* from the first on, is the table of resolution R: same scalars and same  *)
(* colours (control_points_compare against control_points).                *)
C9_OddResolution ==
    (vpc \in {"compared", "loop", "estimated"})
        => /\ Len(control_points_compare) = 2 * Len(control_points) - 1
           /\ \A j \in 1..Len(control_points) :
                control_points_compare[2 * j - 1] = control_points[j]

C9_Witness ==
    /\ vpc = "compared"
    /\ Len(control_points) = 3 /\ Len(control_points_compare) = 5
    /\ control_points_compare[3] = control_points[2]
    /\ control_points[2].scalar = Rat(1, 2)
    /\ control_points[2].color.src = "Lab"
    /\ control_points[2].color.lab # <<>>

(* |reference at the midpoint of gap g - average of the two control        *)
(* points of gap g|, channel c, with table_length control points           *)
MidpointError(g, c) ==
    LET reference == lib[Rat(2 * g + 1, 2 * (table_length - 1))][c]
        left == lib[Rat(g, table_length - 1)][c]
        right == lib[Rat(g + 1, table_length - 1)][c]
    IN  Rat(Abs(2 * reference - left - right), 2)

(* C10: the error estimate is the maximum, over all table_length-1 gaps    *)
(* between consecutive control points and all three channels, of           *)
(* |reference colour at the gap's midpoint - average of the two adjacent   *)
(* control points| (0 when there is no gap).                               *)
C10_MaxOverGaps ==
    (mode = "estimate" /\ vpc = "estimated")
        => LET errors == { MidpointError(g, c) :
                              g \in 0..(table_length - 2), c \in 1..3 } \cup {Zero}
           IN  /\ max_error \in errors
               /\ \A d \in errors : RLe(d, max_error)

C10_Witness ==
    /\ mode = "estimate" /\ vpc = "estimated"
    /\ table_length = 3
    /\ max_error = Rat(49, 2)
    /\ MidpointError(0, 2) = Zero
    /\ MidpointError(1, 2) = Rat(49, 2)

(* every channel of the converted colour lies in [0,1] *)
InUnitRange(rgb) == \A c \in 1..3 : 0 <= rgb[c] /\ rgb[c] <= 1000

(* C11: valid_color returns true if and only if every channel of the       *)
(* converted RGB colour lies in [0,1]; a channel slightly below 0 or       *)
(* slightly above 1 makes it false.                                        *)
C11_ValidIffInRange ==
    cpc \in {"valid", "safe"} => (valid <=> InUnitRange(rgb_color))

(* max channel - min channel *)
Spread(rgb) ==
    CHOOSE d \in 0..2000 :
        /\ \E a, b \in 1..3 : d = rgb[a] - rgb[b]
        /\ \A a, b \in 1..3 : rgb[a] - rgb[b] <= d

(* C12: safe_color returns true iff every channel c satisfies              *)
(* d <= c <= 1-d with d = 0.05*(max - min); every safe colour has all      *)
(* channels in [0,1]; for a gray colour safe is the same as all channels   *)
(* in [0,1].                                                               *)
C12_SafeStricter ==
    cpc = "safe"
        => /\ safe <=> \A c \in 1..3 :
                        /\ Spread(rgb_color) <= 20 * rgb_color[c]
                        /\ 20 * rgb_color[c] <= 20 * 1000 - Spread(rgb_color)
           /\ safe => InUnitRange(rgb_color)
           /\ (rgb_color[1] = rgb_color[2] /\ rgb_color[2] = rgb_color[3])
                => (safe <=> InUnitRange(rgb_color))

C12_Witness ==
    /\ cpc = "safe"
    /\ rgb_color = <<960, 40, 500>>
    /\ InUnitRange(rgb_color) /\ ~safe

(* C13: under monotone safety, every scale strictly below the scale        *)
(* returned by the binary search of scale_hue is safe (every scale of the  *)
(* grid from 0 on).                                                        *)
C13_BelowIsSafe ==
    (SearchEnded /\ gamut.mono)
        => \A k \in 0..(low_scale - 1) : SafeScale(gamut, k)

C13_Witness ==
    /\ SearchEnded /\ gamut.mono
    /\ low_scale = 2730
    /\ SafeScale(gamut, 0) /\ SafeScale(gamut, 2729)
    /\ ~SafeScale(gamut, 2731)

Resolutions == <<8, 16, 32, 64, 128, 256, 512, 1024>>

(* C15: the export loop of each notebook writes tables for exactly the     *)
(* resolutions 8, 16, ..., 1024, a byte table and a float table for each,  *)
(* and the table of resolution N has N rows at the scalars i/(N-1).        *)
C15_ExportResolutions ==
    /\ Len(exported) <= 2 * Len(Resolutions)
    /\ (mode \in {"export", "kexport"} /\ num_bits > 10)
            => Len(exported) = 2 * Len(Resolutions)
    /\ \A k \in 1..Len(exported) :
          LET N == Resolutions[(k + 1) \div 2]
              rows == exported[k].rows
          IN  /\ exported[k].kind = (IF k % 2 = 1 THEN "byte" ELSE "float")
              /\ exported[k].table_length = N
              /\ Len(rows) = N
              /\ \A j \in 0..(N - 1) :
                    rows[j + 1].scalar[1] * (N - 1) = j * rows[j + 1].scalar[2]

C15_Witness ==
    /\ mode = "kexport" /\ num_bits = 11
    /\ Len(exported) = 16
    /\ exported[1].table_length = 8 /\ exported[16].table_length = 1024
    /\ exported[15].kind = "byte" /\ exported[16].kind = "float"
    /\ exported[16].rows[512].scalar = Rat(511, 1023)

(* C16: the flat RGBPoints list written from a control-point table has     *)
(* four values per point, and the loading loop reads back from it the same *)
(* (scalar, r, g, b) points in the same order.                             *)
C16_FlatListRoundTrip ==
    /\ pc \in {"preset", "read"} => Len(RGBPoints) = 4 * Len(table)
    /\ pc = "read"
        => /\ Len(data) = Len(table)
           /\ \A k \in 1..Len(table) :
                /\ data[k].scalar = table[k].scalar
                /\ data[k].rgb_values = table[k].color.rgb

C16_Witness ==
    /\ pc = "read" /\ Len(table) = 11
    /\ data[2].scalar = Rat(1, 10) /\ table[2].hue = Rat(270, 1)
    /\ data[2].rgb_values = <<940, 60, 500>>
    /\ data[11].rgb_values = <<1000, 1000, 1000>>

(* C19: when x lies inside the interval color_lookup_sRGBColor selected    *)
(* (low scalar <= x <= high scalar, low scalar < high scalar), the         *)
(* fraction t times (high scalar - low scalar) is x - low scalar, and the  *)
(* colour returned is the conversion of the Lab colour whose L, a and b    *)
(* each differ from the low sample's Lab value by t times the difference   *)
(* of the two samples' Lab values; the samples' RGB values take no part.   *)
C19_LabInterpolation ==
    (vpc = "looked" /\ looked.index >= 0
        /\ RLt(data[looked.index + 1].scalar, data[looked.index + 2].scalar)
        /\ RLe(data[looked.index + 1].scalar, x)
        /\ RLe(x, data[looked.index + 2].scalar))
    => LET low == data[looked.index + 1]
           high == data[looked.index + 2]
           t == looked.interp
       IN  /\ RMul(t, RSub(high.scalar, low.scalar)) = RSub(x, low.scalar)
           /\ looked.color.src = "Lab"
           /\ looked.color.rgb = <<>>
           /\ \A c \in 1..3 :
                RSub(looked.color.lab[c], low.lab_values[c])
                    = RMul(t, RSub(high.lab_values[c], low.lab_values[c]))

C19_Witness ==
    /\ vpc = "looked" /\ Len(data) = 2
    /\ data[1].scalar = Zero /\ data[2].scalar = One
    /\ data[1].rgb_values = <<267, 5, 329>>
    /\ data[2].rgb_values = <<993, 906, 144>>
    /\ x = Rat(1, 2)
    /\ looked.index = 0 /\ looked.interp = Rat(1, 2)
    /\ looked.color.lab = <<Rat(53, 1), Rat(33, 2), Rat(53, 2)>>

(* the hue the linear sweep from start_hue to end_hue has at fraction s *)
SweepHue(s) == RAdd(Rat(start_hue, 1), RMul(s, Rat(end_hue - start_hue, 1)))

HueRows(tbl, n) ==
    \A k \in 1..Len(tbl) :
        /\ tbl[k].hue = SweepHue(tbl[k].scalar)
        /\ n >= 2 => tbl[k].scalar = Rat(k - 1, n - 1)

(* C20: in every table build_kindlmann_colors builds from                  *)
(* linspace(start_hue, end_hue, N), the exported tables of 8 to 1024 rows  *)
(* included, and in the control-point table built from the hues 300, 270,  *)
(* ..., 0, the hue of each row is start_hue + s*(end_hue - start_hue),     *)
(* where s is the scalar of the row, (row index)/(N - 1).                  *)
C20_HueAssignment ==
    /\ mode \in {"build", "kexport", "preset"}
            => HueRows(table, Len(hue_array))
    /\ mode = "kexport"
            => \A e \in 1..Len(exported) :
                    HueRows(exported[e].rows, exported[e].table_length)

C20_Witness ==
    /\ mode = "preset" /\ pc = "preset"
    /\ Len(table) = 11
    /\ table[2].scalar = Rat(1, 10) /\ table[2].hue = Rat(270, 1)
    /\ table[11].scalar = One /\ table[11].hue = Zero

(* C21: after the 12 passes of the search loop of scale_hue the bracket    *)
(* high_scale - low_scale is exactly 2^-12 = 1/4096, which is below 0.05%  *)
(* of the range; when safety is monotone in the scale, with the boundary   *)
(* of the safe scales anywhere in [0, 1], the returned low_scale is at     *)
(* most 1/4096 away from that boundary.                                    *)
C21_BracketPrecision ==
    SearchEnded
        => /\ ScaleUnit = 2 ^ 12
           /\ 10000 < 5 * ScaleUnit
           /\ high_scale - low_scale = 1
           /\ (gamut.mono /\ gamut.t2 >= 0)
                => /\ 2 * low_scale - gamut.t2 <= 2
                   /\ gamut.t2 - 2 * low_scale <= 2

C21_Witness ==
    /\ SearchEnded /\ gamut.mono
    /\ gamut.t2 = 2 * ScaleUnit
    /\ low_scale = ScaleUnit - 1 /\ high_scale = ScaleUnit

(* every run of the notebooks; a call of scale_hue that has started keeps  *)
(* executing its statements                                                *)
SpecCost == Init /\ [][Next]_vars /\ WF_vars(NextKindlmann)

(* the loop variable counts the evaluations of safe_color: a pass of the  *)
(* loop makes one and adds one to i, whatever the answer; the call        *)
(* returns at i = 12 and not before; a row for scalar <= 0 or >= 1 is     *)
(* returned without a pass                                                *)
SearchCost ==
    /\ [](pc = "search" => i \in 0..Iterations)
    /\ [][(pc = "search" /\ i' # i) => \/ (i < Iterations /\ i' = i + 1)
                                        \/ (i = Iterations /\ pc' # "search")]_vars
    /\ [][(pc = "search" /\ pc' # "search") => i = Iterations]_vars
    /\ [][(pc = "apply" /\ Len(table') > Len(table))
            => (IsLow(RowScalar) \/ IsHigh(RowScalar)) /\ i' = 0 /\ i = 0]_vars

LookupCost ==
    /\ [](vpc = "looked"
            => looked.inspected <= (IF Len(data) >= 1 THEN Len(data) - 1 ELSE 0))
    /\ [](vpc = "parallel"
            => \A k \in 1..Len(calls) : calls[k].index \in 0..(Len(data) - 1))
    /\ [][vpc = "parallel"
            => \A k \in 1..Len(calls) :
                  \/ calls'[k] = calls[k]
                  \/ /\ ~calls[k].returned
                     /\ \/ calls'[k].returned
                        \/ calls'[k].index = calls[k].index + 1]_vars

(* C22: scale_hue always returns, after exactly 12 evaluations of          *)
(* safe_color whatever the answers are, and after none when scalar <= 0 or *)
(* scalar >= 1; color_lookup_sRGBColor always returns, after inspecting at *)
(* most (number of input samples - 1) intervals: every pass of its loop    *)
(* returns or moves on to the next interval, and there are no more than    *)
(* that many.                                                              *)
C22_BoundedCost ==
    /\ SearchCost
    /\ LookupCost
    /\ (pc = "search") ~> (pc = "apply" \/ pc = "done")

C22_Witness ==
    /\ mode = "build" /\ pc = "done" /\ Len(table) = 3
    /\ table[2].color.src = "Lab"
    /\ table[2].color.lab[2] = Rat(1365 * 80, ScaleUnit)

(* C23: the search of scale_hue never tests the full scale and never       *)
(* returns it: every scale it tests is k/4096 with 1 <= k <= 4095, the     *)
(* low_scale it returns is k/4096 with 0 <= k <= 4095, and when every      *)
(* answer is "safe", the colour at scale 1.0 included, it returns          *)
(* 4095/4096.                                                              *)
C23_NeverFullScale ==
    /\ (pc = "search" /\ i < Iterations)
            => mid_scale(high_scale, low_scale) \in 1..(ScaleUnit - 1)
    /\ pc = "search" => low_scale \in 0..(ScaleUnit - 1)
    /\ (SearchEnded /\ gamut.mono /\ gamut.t2 = 2 * ScaleUnit)
            => low_scale = ScaleUnit - 1
    /\ (SearchEnded /\ ~gamut.mono /\ gamut.mask = ScaleUnit - 1)
            => low_scale = ScaleUnit - 1
    /\ \A k \in 1..Len(table) :
            table[k].color.src = "Lab"
                => \E ab \in ChromaSamples :
                        LET q == table[k].color.lab[2]
                            s == (q[1] * ScaleUnit) \div (q[2] * ab[1])
                        IN  /\ s \in 0..(ScaleUnit - 1)
                            /\ table[k].color.lab[2] = Rat(s * ab[1], ScaleUnit)
                            /\ table[k].color.lab[3] = Rat(s * ab[2], ScaleUnit)

C23_Witness ==
    /\ mode = "search" /\ pc = "apply" /\ Len(table) = 2
    /\ table[2].color.lab[2] = Rat((ScaleUnit - 1) * 80, ScaleUnit)
    /\ table[2].color.lab[3] = Rat((ScaleUnit - 1) * 67, ScaleUnit)

(* the pass of the search whose midpoint is the scale s/4096: pass k tests *)
(* the odd multiples of 2^(11-k)                                           *)
PassOf(s) ==
    CHOOSE k \in 0..(Iterations - 1) :
        s % (2 ^ (Iterations - k)) = 2 ^ (Iterations - 1 - k)

(* C24: the loop invariant of the search of scale_hue.  Before pass i      *)
(* (and after the last one) 0 <= low_scale < high_scale <= 1 and           *)
(* high_scale - low_scale = 2^-i; the midpoint of a pass lies strictly     *)
(* between the two; low_scale is 0, which was never tested, or a scale     *)
(* safe_color accepted; high_scale is 1, which was never tested, or a      *)
(* scale safe_color rejected; low_scale never decreases and high_scale     *)
(* never increases during a call.                                          *)
C24_LoopInvariant ==
    /\ [](pc = "search"
            => /\ 0 <= low_scale /\ low_scale < high_scale
               /\ high_scale <= ScaleUnit
               /\ (high_scale - low_scale) * 2 ^ i = ScaleUnit
               /\ i < Iterations
                    => /\ low_scale < mid_scale(high_scale, low_scale)
                       /\ mid_scale(high_scale, low_scale) < high_scale
               /\ low_scale # 0
                    => /\ PassOf(low_scale) < i
                       /\ safe_color(convert_color_sRGB(gamut, 2 * low_scale,
                                                        PassOf(low_scale)))
                       /\ safe_color(low_rgb)
               /\ high_scale # ScaleUnit
                    => /\ PassOf(high_scale) < i
                       /\ ~safe_color(convert_color_sRGB(gamut, 2 * high_scale,
                                                         PassOf(high_scale))))
    /\ [][(pc = "search" /\ pc' = "search")
            => /\ low_scale' >= low_scale
               /\ high_scale' <= high_scale
               /\ (low_scale' # low_scale) # (high_scale' # high_scale)]_vars

C24_Witness ==
    /\ pc = "search" /\ i = 5
    /\ ~gamut.mono
    /\ low_scale = 1280 /\ high_scale = 1408

(* C25: every colour scale_hue returns passes safe_color, provided the     *)
(* gray of the row's luminance (scale 0) is safe: the black and the white  *)
(* row, a row whose search accepted a midpoint, and a row whose search     *)
(* accepted none and returns scale 0.                                      *)
C25_RowsAreSafe ==
    /\ [](\A k \in 1..Len(table) :
            table[k].color.src = "literal"
                => /\ safe_color(table[k].color.rgb)
                   /\ InUnitRange(table[k].color.rgb))
    /\ [](SearchEnded /\ SafeScale(gamut, 0)
            => safe_color(FinalRgb) /\ InUnitRange(FinalRgb))
    /\ [][(SearchEnded /\ pc' = "apply")
            => /\ Len(table') = Len(table) + 1
               /\ Last(table').color.rgb = FinalRgb
               /\ SafeScale(gamut, 0) => safe_color(Last(table').color.rgb)]_vars

C25_Witness ==
    /\ mode = "search" /\ pc = "apply" /\ Len(table) = 2
    /\ table[2].color.src = "Lab"
    /\ table[2].color.lab[2] = Zero /\ table[2].color.lab[3] = Zero
    /\ table[2].color.rgb = GrayIn

(* C26: on a table with non-decreasing scalars color_lookup_sRGBColor      *)
(* never selects a zero-width interval of index >= 1, and it divides by    *)
(* zero exactly when the first two scalars are equal and x lies between 0  *)
(* and that scalar, both included.                                         *)
C26_DivisionByZero ==
    (vpc = "looked" /\ Sorted(data))
        => /\ looked.index >= 1
                => RLt(data[looked.index + 1].scalar, data[looked.index + 2].scalar)
           /\ looked.color = NaNColor
                <=> /\ Len(data) >= 2
                    /\ data[1].scalar = data[2].scalar
                    /\ RLe(Zero, x) /\ RLe(x, data[1].scalar)

C26_Witness ==
    /\ vpc = "looked" /\ Len(data) = 3
    /\ data[1].scalar = Zero
    /\ data[2].scalar = Rat(1, 2) /\ data[3].scalar = Rat(1, 2)
    /\ x = Rat(1, 2)
    /\ looked.index = 0 /\ looked.interp = One
    /\ looked.color # NaNColor

(* C27: on a table of at least two samples with strictly increasing        *)
(* scalars whose first scalar is greater than 0, for 0 <= x < first scalar *)
(* color_lookup_sRGBColor returns neither black nor an error: it selects   *)
(* interval 0 and extrapolates the Lab values of the first two samples     *)
(* with the negative fraction t = (x - scalar[0])/(scalar[1] - scalar[0]). *)
C27_BelowFirstScalar ==
    (vpc = "looked" /\ Len(data) >= 2 /\ StrictlyIncreasing(data)
        /\ RLt(Zero, data[1].scalar)
        /\ RLe(Zero, x) /\ RLt(x, data[1].scalar))
    => /\ looked.index = 0
       /\ looked.inspected = 1
       /\ RLt(looked.interp, Zero)
       /\ RMul(looked.interp, RSub(data[2].scalar, data[1].scalar))
            = RSub(x, data[1].scalar)
       /\ looked.color.src = "Lab"
       /\ \A c \in 1..3 :
            RSub(looked.color.lab[c], data[1].lab_values[c])
                = RMul(looked.interp,
                       RSub(data[2].lab_values[c], data[1].lab_values[c]))

C27_Witness ==
    /\ vpc = "looked" /\ Len(data) = 2
    /\ data[1].scalar = Rat(1, 2) /\ data[2].scalar = One
    /\ data[1].rgb_values = <<267, 5, 329>>
    /\ data[2].rgb_values = <<993, 906, 144>>
    /\ x = Rat(1, 4)
    /\ looked.index = 0 /\ looked.interp = Rat(-1, 2)
    /\ looked.color.lab[1] = Rat(-23, 1)

(* C28: on a table of at least two samples with strictly increasing        *)
(* scalars, the lookup of the scalar of sample k returns the conversion of *)
(* that sample's own Lab colour: with fraction 0 on interval 0 for the     *)
(* first sample and with fraction 1 on interval k-1 for every later one.   *)
C28_ThroughSamples ==
    (vpc = "looked" /\ Len(data) >= 2 /\ StrictlyIncreasing(data))
        => \A k \in 1..Len(data) :
              x = data[k].scalar
                => /\ looked.color = FromLab(data[k].lab_values, <<>>)
                   /\ k = 1 => looked.index = 0 /\ looked.interp = Zero
                   /\ k >= 2 => looked.index = k - 2 /\ looked.interp = One

C28_Witness ==
    /\ vpc = "looked" /\ Len(data) = 3 /\ StrictlyIncreasing(data)
    /\ data[1].rgb_values = <<267, 5, 329>>
    /\ data[2].rgb_values = <<993, 906, 144>>
    /\ data[3].rgb_values = <<267, 5, 329>>
    /\ x = data[2].scalar
    /\ looked.index = 0 /\ looked.interp = One
    /\ looked.color.lab = <<Rat(91, 1), Rat(-5, 1), Rat(85, 1)>>

(* C29: on a table of fewer than two samples color_lookup_sRGBColor        *)
(* returns pure white for every x >= 0, x = 0 included, and pure black for *)
(* every x < 0, without inspecting an interval; build_kindlmann_colors on  *)
(* a single hue gives one row, at scalar 0, which is pure black, so the    *)
(* table has no row at scalar 1.                                           *)
C29_DegenerateTables ==
    /\ (vpc = "looked" /\ Len(data) < 2)
            => /\ RLt(x, Zero) => looked.color = Black
               /\ RLe(Zero, x) => looked.color = White
               /\ looked.index = -1 /\ looked.inspected = 0
    /\ (mode = "build" /\ Len(hue_array) = 1)
            => /\ scalars = <<Zero>>
               /\ Len(table) <= 1
               /\ pc = "done" => Len(table) = 1
               /\ \A k \in 1..Len(table) :
                    /\ table[k].scalar = Zero /\ table[k].color = Black
                    /\ table[k].scalar # One
                    /\ table[k].hue = Rat(start_hue, 1)

C29_Witness ==
    /\ vpc = "looked" /\ Len(data) = 1
    /\ x = Zero
    /\ looked.color = White

(* C30: for every table_length N >= 2 the loop of the error estimate runs  *)
(* over the gaps 0..N-2 and reads only rows that exist: rows i and i+1 of  *)
(* the N-row control table and row 2i+1 of the (2N-1)-row reference table; *)
(* the reference scalar at row 2i+1 is the midpoint of the control scalars *)
(* i and i+1, and the reference scalar at row 2i is control scalar i.      *)
C30_EstimateAlignment ==
    (mode = "estimate" /\ vpc \in {"loop", "estimated"} /\ table_length >= 2)
        => /\ Len(control_points) = table_length
           /\ Len(control_points_compare) = 2 * table_length - 1
           /\ index \in 0..(table_length - 1)
           /\ vpc = "estimated" => index = table_length - 1
           /\ \A idx \in 0..(table_length - 2) :
                /\ idx + 1 <= table_length - 1
                /\ ExpectedRow(idx) <= 2 * table_length - 2
                /\ ExpectedRow(idx) + 1 \in DOMAIN control_points_compare
                /\ idx + 2 \in DOMAIN control_points
                /\ RMul(<<2, 1>>, control_points_compare[ExpectedRow(idx) + 1].scalar)
                     = RAdd(control_points[idx + 1].scalar,
                            control_points[idx + 2].scalar)
                /\ control_points_compare[2 * idx + 1].scalar
                     = control_points[idx + 1].scalar

C30_Witness ==
    /\ mode = "estimate" /\ vpc = "loop" /\ table_length = 3
    /\ index = 1
    /\ control_points[2].scalar = Rat(1, 2) /\ control_points[3].scalar = One
    /\ control_points_compare[4].scalar = Rat(3, 4)

=============================================================================
